---- MODULE Spec2Model ----
(***************************************************************************)
(* A model of the UK OS Map (GPX) Obsidian plugin, src/main.ts:            *)
(*   - parseYamlLike   the block-option reader                             *)
(*   - gpxToPolyline   the GPX track extractor                             *)
(*   - renderOSMapBlock the block processor and its track loop             *)
(*   - OSSettingsTab   the four settings fields                            *)
(* Text is a sequence of one-character strings, so that trimming, the      *)
(* regular expressions, Number(), parseFloat() and JSON.parse() are        *)
(* computed character by character as the JavaScript engine computes them. *)
(***************************************************************************)
EXTENDS Integers, Sequences, FiniteSets, TLC

\* ------------------------------------------------------------------ text

LF == "\n"
CR == "\r"

\* JavaScript's \s (and what trim removes), as far as the inputs go.
WhiteSpace == {" ", "\t", CR, LF}

\* The characters the regular expression dot does not match.
LineTerminators == {CR, LF}

DigitChars == {"0", "1", "2", "3", "4", "5", "6", "7", "8", "9"}

AlphaChars ==
  {"a", "b", "c", "d", "e", "f", "g", "h", "i", "j", "k", "l", "m",
   "n", "o", "p", "q", "r", "s", "t", "u", "v", "w", "x", "y", "z",
   "A", "B", "C", "D", "E", "F", "G", "H", "I", "J", "K", "L", "M",
   "N", "O", "P", "Q", "R", "S", "T", "U", "V", "W", "X", "Y", "Z"}

\* The key class [A-Za-z0-9_-] of the key: value pattern.
KeyChars == AlphaChars \cup DigitChars \cup {"_", "-"}

DigitVal(c) ==
  (CHOOSE k \in 1..10 : <<"0", "1", "2", "3", "4", "5", "6", "7", "8", "9">>[k] = c) - 1

HexChars == DigitChars \cup {"a", "b", "c", "d", "e", "f", "A", "B", "C", "D", "E", "F"}

HexVal(c) ==
  IF c \in DigitChars THEN DigitVal(c)
  ELSE 9 + (CHOOSE k \in 1..6 :
              \/ <<"a", "b", "c", "d", "e", "f">>[k] = c
              \/ <<"A", "B", "C", "D", "E", "F">>[k] = c)

\* The first position at or after p whose character is outside S (Len+1 if none).
RECURSIVE SkipSet(_, _, _)
SkipSet(s, p, S) ==
  IF p <= Len(s) /\ s[p] \in S THEN SkipSet(s, p + 1, S) ELSE p

\* The last position at or before p whose character is outside S (0 if none).
RECURSIVE SkipSetBack(_, _, _)
SkipSetBack(s, p, S) ==
  IF p >= 1 /\ s[p] \in S THEN SkipSetBack(s, p - 1, S) ELSE p

\* s.substring(p-1): the characters from position p on.
From(s, p) == SubSeq(s, p, Len(s))

trimStart(s) == From(s, SkipSet(s, 1, WhiteSpace))

trimEnd(s) == SubSeq(s, 1, SkipSetBack(s, Len(s), WhiteSpace))

trim(s) == trimEnd(trimStart(s))

\* Whether the characters of t stand in s from position p on.
HasPrefixAt(s, p, t) ==
  /\ p + Len(t) - 1 <= Len(s)
  /\ \A k \in 1..Len(t) : s[p + k - 1] = t[k]

startsWith(s, t) == HasPrefixAt(s, 1, t)

Chars(s) == {s[k] : k \in 1..Len(s)}

\* s.replace(/'/g, '"')
ReplaceQuotes(s) == [k \in 1..Len(s) |-> IF s[k] = "'" THEN "\"" ELSE s[k]]

\* src.split(/\r?\n/): cut at every LF, dropping a CR that stands right
\* before it; the text after the last LF is the last line (possibly empty).
RECURSIVE SplitFrom(_, _, _)
SplitFrom(s, p, cur) ==
  IF p > Len(s) THEN <<cur>>
  ELSE IF s[p] = LF THEN <<cur>> \o SplitFrom(s, p + 1, <<>>)
  ELSE IF s[p] = CR /\ p < Len(s) /\ s[p + 1] = LF
       THEN <<cur>> \o SplitFrom(s, p + 2, <<>>)
  ELSE SplitFrom(s, p + 1, Append(cur, s[p]))

Split(s) == SplitFrom(s, 1, <<>>)

RECURSIVE Join(_, _)
Join(ls, sep) ==
  IF Len(ls) = 0 THEN <<>>
  ELSE IF Len(ls) = 1 THEN ls[1]
  ELSE ls[1] \o sep \o Join(Tail(ls), sep)

\* ---------------------------------------------------------------- numbers
\* A JavaScript number is NaN, an infinity, or a finite decimal m * 10^e
\* with its sign (JavaScript keeps the sign of zero).

NaN == [k |-> "NaN"]

Inf(neg) == [k |-> "Inf", neg |-> neg]

RECURSIVE Fin(_, _, _)
Fin(neg, m, e) ==
  IF m = 0 THEN [k |-> "Fin", neg |-> neg, m |-> 0, e |-> 0]
  ELSE IF m % 10 = 0 THEN Fin(neg, m \div 10, e + 1)
  ELSE [k |-> "Fin", neg |-> neg, m |-> m, e |-> e]

Zero == Fin(FALSE, 0, 0)

isNaN(x) == x.k = "NaN"

\* The value of the digits s[from..to-1] in the given radix.
RECURSIVE DigitsVal(_, _, _, _)
DigitsVal(s, from, to, radix) ==
  IF to <= from THEN 0
  ELSE DigitsVal(s, from, to - 1, radix) * radix + HexVal(s[to - 1])

Failed(p) == [ok |-> FALSE, end |-> p, val |-> NaN]

\* The exponent part is read: its digits are s[q..qEnd-1] (none if qEnd = q,
\* and then a dangling e is no part of the literal).
ScanDone(s, p, p1, a, mEnd, fracN, q, qEnd) ==
  [ok  |-> TRUE,
   end |-> IF qEnd > q THEN qEnd ELSE mEnd,
   val |-> Fin(s[p] = "-",
               DigitsVal(s, p1, a, 10) * (10 ^ fracN) + DigitsVal(s, a + 1, mEnd, 10),
               (IF q - 1 <= Len(s) /\ s[q - 1] = "-" THEN 0 - DigitsVal(s, q, qEnd, 10)
                                  ELSE DigitsVal(s, q, qEnd, 10)) - fracN)]

ScanExpDigits(s, p, p1, a, mEnd, fracN, q) ==
  ScanDone(s, p, p1, a, mEnd, fracN, q,
           IF mEnd <= Len(s) /\ s[mEnd] \in {"e", "E"}
           THEN SkipSet(s, q, DigitChars) ELSE q)

\* The mantissa is s[p1..mEnd-1] with fracN digits after its dot.
ScanExp(s, p, p1, a, mEnd, fracN) ==
  ScanExpDigits(s, p, p1, a, mEnd, fracN,
                IF mEnd + 1 <= Len(s) /\ s[mEnd + 1] \in {"+", "-"}
                THEN mEnd + 2 ELSE mEnd + 1)

\* The integer digits are s[p1..a-1]; b is the end of the fraction digits when
\* s[a] is a dot, and a when it is not.  A dot alone is no literal.
ScanFrac(s, p, p1, a, b) ==
  IF a > p1 \/ b > a + 1
  THEN ScanExp(s, p, p1, a, b, IF b > a THEN b - a - 1 ELSE 0)
  ELSE Failed(p)

ScanInt(s, p, p1, a) ==
  ScanFrac(s, p, p1, a,
           IF a <= Len(s) /\ s[a] = "." THEN SkipSet(s, a + 1, DigitChars) ELSE a)

ScanSigned(s, p, p1) ==
  IF HasPrefixAt(s, p1, <<"I", "n", "f", "i", "n", "i", "t", "y">>)
  THEN [ok |-> TRUE, end |-> p1 + 8, val |-> Inf(s[p] = "-")]
  ELSE IF p1 > Len(s) THEN Failed(p)
  ELSE ScanInt(s, p, p1, SkipSet(s, p1, DigitChars))

\* The longest StrDecimalLiteral (ECMAScript StringToNumber) that starts at
\* position p of s: [sign] (Infinity | digits [. [digits]] | . digits)
\* [(e|E) [sign] digits].  ok is FALSE when none does.
ScanDecimal(s, p) ==
  ScanSigned(s, p, IF p <= Len(s) /\ s[p] \in {"+", "-"} THEN p + 1 ELSE p)

\* The radix of a NonDecimalIntegerLiteral prefix (0x, 0o, 0b), 0 if none.
Radix(t) ==
  IF Len(t) < 3 \/ t[1] # "0" THEN 0
  ELSE IF t[2] \in {"x", "X"} THEN 16
  ELSE IF t[2] \in {"o", "O"} THEN 8
  ELSE IF t[2] \in {"b", "B"} THEN 2
  ELSE 0

\* A NonDecimalIntegerLiteral: the prefix and at least one digit of the radix.
NonDecimalOk(t) ==
  /\ Radix(t) # 0
  /\ \A k \in 3..Len(t) : t[k] \in HexChars /\ HexVal(t[k]) < Radix(t)

WholeDecimal(t, r) == IF r.ok /\ r.end = Len(t) + 1 THEN r.val ELSE NaN

NumberTrimmed(t) ==
  IF Len(t) = 0 THEN Zero
  ELSE IF NonDecimalOk(t) THEN Fin(FALSE, DigitsVal(t, 3, Len(t) + 1, Radix(t)), 0)
  ELSE WholeDecimal(t, ScanDecimal(t, 1))

\* Number(s): the whole trimmed text must be a numeric literal; the empty
\* (or all-whitespace) text is 0.
Number(s) == NumberTrimmed(trim(s))

PrefixDecimal(r) == IF r.ok THEN r.val ELSE NaN

\* parseFloat(s): the longest numeric prefix after leading whitespace; NaN if
\* there is none (the empty text included).
parseFloat(s) == PrefixDecimal(ScanDecimal(trimStart(s), 1))

\* ----------------------------------------------------------------- values
\* The dynamically typed values the option reader stores.

StrV(s) == [t |-> "String", s |-> s]

NumV(n) == [t |-> "Number", n |-> n]

BoolV(b) == [t |-> "Boolean", b |-> b]

ArrV(a) == [t |-> "Array", a |-> a]

NullV == [t |-> "Null"]

\* ------------------------------------------------------------- JSON.parse

JsonWs == {" ", "\t", CR, LF}

JsonFail(p) == [ok |-> FALSE, end |-> p, v |-> NullV]

JsonNumberVal(p, r) ==
  IF r.ok THEN [ok |-> TRUE, end |-> r.end, v |-> NumV(r.val)] ELSE JsonFail(p)

\* The integer part is s[p1..a-1]: no leading zero, and a dot needs a digit.
JsonNumberInt(s, p, p1, a) ==
  IF \/ a = p1
     \/ (s[p1] = "0" /\ a > p1 + 1)
     \/ (a <= Len(s) /\ s[a] = "." /\ ~(a + 1 <= Len(s) /\ s[a + 1] \in DigitChars))
  THEN JsonFail(p)
  ELSE JsonNumberVal(p, ScanDecimal(s, p))

\* A JSON number at position p: -? (0 | [1-9] digits) (. digits)? ([eE] [+-]? digits)?
JsonNumberAt(s, p, p1) == JsonNumberInt(s, p, p1, SkipSet(s, p1, DigitChars))

JsonNumber(s, p) == JsonNumberAt(s, p, IF s[p] = "-" THEN p + 1 ELSE p)

JsonStringClose(s, p, close) ==
  IF close <= Len(s) /\ s[close] = "\""
  THEN [ok |-> TRUE, end |-> close + 1, v |-> StrV(SubSeq(s, p + 1, close - 1))]
  ELSE JsonFail(p)

\* A JSON string at position p (the inputs hold no escapes: a backslash or a
\* control character ends the parse with an error, as an unknown escape does).
JsonString(s, p) ==
  JsonStringClose(s, p, SkipSet(s, p + 1, Chars(s) \ {"\"", "\\", CR, LF, "\t"}))

RECURSIVE JsonValue(_, _)
RECURSIVE JsonElems(_, _, _)

\* After the element e of an array, at p2: its end, or a comma and more.
JsonSep(s, acc, e, p2) ==
  IF p2 <= Len(s) /\ s[p2] = "]"
  THEN [ok |-> TRUE, end |-> p2 + 1, v |-> ArrV(Append(acc, e.v))]
  ELSE IF p2 <= Len(s) /\ s[p2] = ","
  THEN JsonElems(s, p2 + 1, Append(acc, e.v))
  ELSE JsonFail(p2)

JsonAfterElem(s, acc, e) ==
  IF e.ok THEN JsonSep(s, acc, e, SkipSet(s, e.end, JsonWs)) ELSE JsonFail(e.end)

\* The elements of an array from p on (after its "[" or a comma), acc so far.
JsonElems(s, p, acc) == JsonAfterElem(s, acc, JsonValue(s, SkipSet(s, p, JsonWs)))

JsonArray(s, p, p1) ==
  IF p1 <= Len(s) /\ s[p1] = "]"
  THEN [ok |-> TRUE, end |-> p1 + 1, v |-> ArrV(<<>>)]
  ELSE JsonElems(s, p + 1, <<>>)

JsonValue(s, p) ==
  IF p > Len(s) THEN JsonFail(p)
  ELSE IF s[p] = "[" THEN JsonArray(s, p, SkipSet(s, p + 1, JsonWs))
  ELSE IF s[p] = "\"" THEN JsonString(s, p)
  ELSE IF HasPrefixAt(s, p, <<"t", "r", "u", "e">>)
  THEN [ok |-> TRUE, end |-> p + 4, v |-> BoolV(TRUE)]
  ELSE IF HasPrefixAt(s, p, <<"f", "a", "l", "s", "e">>)
  THEN [ok |-> TRUE, end |-> p + 5, v |-> BoolV(FALSE)]
  ELSE IF HasPrefixAt(s, p, <<"n", "u", "l", "l">>)
  THEN [ok |-> TRUE, end |-> p + 4, v |-> NullV]
  ELSE JsonNumber(s, p)

JsonWhole(s, r) ==
  IF r.ok /\ SkipSet(s, r.end, JsonWs) = Len(s) + 1
  THEN [ok |-> TRUE, v |-> r.v]
  ELSE [ok |-> FALSE, v |-> NullV]

\* JSON.parse(s): ok is FALSE where JSON.parse throws a SyntaxError.
JsonParse(s) == JsonWhole(s, JsonValue(s, SkipSet(s, 1, JsonWs)))

\* ------------------------------------------------------------ the inputs

\* The longest block text, in lines.
MaxLines == 3

\* a key with an empty value
LineGpxEmpty == <<"g", "p", "x", ":">>

\* an indented list item
LineItemLink == <<" ", " ", "-", " ", "[", "[", "a", ".", "g", "p", "x", "]", "]">>

\* a list item with trailing whitespace
LineItemB == <<"-", " ", "b", " ">>

\* a hyphen line holding a lone CR: it passes the test of line 197 and fails the match of line 201
LineItemCr == <<"-", " ", "a", "\r", "b">>

\* a comment
LineComment == <<" ", "#", " ", "c">>

\* a blank line
LineBlank == <<>>

\* no key: value line (a space in the key)
LineMalformed == <<"a", " ", "b", ":", " ", "1">>

\* a number, trailing whitespace, CRLF line end
LineZoom == <<"z", "o", "o", "m", ":", " ", "1", "2", " ", "\r">>

\* hyphens only
LineHyphens == <<"k", ":", " ", "-", "-">>

\* alphabetic only
LineAlpha == <<"k", ":", " ", "a", "b", "c">>

\* alphabetic only, and a numeric literal of Number()
LineInfinity == <<"k", ":", " ", "I", "n", "f", "i", "n", "i", "t", "y">>

\* a boolean
LineTrue == <<"f", "l", "a", "g", ":", " ", "t", "r", "u", "e">>

\* not a boolean: the test is case-sensitive
LineTrueCap == <<"f", "l", "a", "g", ":", " ", "T", "r", "u", "e">>

\* a bracketed pair
LineCenter == <<"c", "e", "n", "t", "e", "r", ":", " ", "[", "1", ",", " ", "2", ".", "5", "]">>

\* a single wikilink
LineGpxLink == <<"g", "p", "x", ":", " ", "[", "[", "a", ".", "g", "p", "x", "]", "]">>

\* a key that starts with a hyphen, a hexadecimal value
LineHyphenKey == <<"-", "x", ":", " ", "0", "x", "1", "F">>

\* a wikilink whose text is JSON: the value parses as a nested array
LineGpxNumber == <<"g", "p", "x", ":", " ", "[", "[", "1", "]", "]">>

\* an API key
LineApiKey == <<"a", "p", "i", "K", "e", "y", ":", " ", "k">>

\* an API key left empty
LineApiKeyEmpty == <<"a", "p", "i", "K", "e", "y", ":">>

\* no start and end markers
LineNoMarkers == <<"s", "h", "o", "w", "S", "t", "a", "r", "t", "E", "n", "d", ":", " ", "f", "a", "l", "s", "e">>

ParseLinePool ==
  {LineGpxEmpty,
   LineItemLink,
   LineItemB,
   LineItemCr,
   LineComment,
   LineBlank,
   LineMalformed,
   LineZoom,
   LineHyphens,
   LineAlpha,
   LineInfinity,
   LineTrue,
   LineTrueCap,
   LineCenter,
   LineGpxLink,
   LineHyphenKey}

\* Every text of at most MaxLines lines of the pool, joined by LF.
BlockTexts(pool, max) ==
  {Join(ls, <<LF>>) : ls \in UNION {[1..n -> pool] : n \in 0..max}}

\* ---------------------------------------------------------- parseYamlLike

NoKeyLine == [ok |-> FALSE, key |-> <<>>, val |-> <<>>]

\* The key is line[1..c-1] and line[c] the colon; rest is what follows the
\* whitespace after it.
KeyLineRest(line, c, rest) ==
  IF Chars(rest) \cap LineTerminators = {}
  THEN [ok |-> TRUE, key |-> SubSeq(line, 1, c - 1), val |-> rest]
  ELSE NoKeyLine

KeyLineAt(line, c) ==
  IF c > 1 /\ c <= Len(line) /\ line[c] = ":"
  THEN KeyLineRest(line, c, From(line, SkipSet(line, c + 1, WhiteSpace)))
  ELSE NoKeyLine

\* line.match(/^([A-Za-z0-9_-]+):\s*(.*)$/): a non-empty run of key characters,
\* a colon, whitespace, and a rest without line terminators (the dot does not
\* match them, and giving whitespace back to the dot cannot help).
KeyLineMatch(line) == KeyLineAt(line, SkipSet(line, 1, KeyChars))

ListItemAt(line, a) ==
  /\ a + 1 <= Len(line)
  /\ line[a] = "-"
  /\ line[a + 1] \in WhiteSpace

\* lines[i].match(/^\s*-\s+/): the test that opens an array block.
ListItemTest(line) == ListItemAt(line, SkipSet(line, 1, WhiteSpace))

ListItemRest(rest) ==
  IF Chars(rest) \cap LineTerminators = {}
  THEN [ok |-> TRUE, item |-> rest]
  ELSE [ok |-> FALSE, item |-> <<>>]

ListItemFrom(line, a) ==
  IF ListItemAt(line, a)
  THEN ListItemRest(From(line, SkipSet(line, a + 1, WhiteSpace)))
  ELSE [ok |-> FALSE, item |-> <<>>]

\* lines[i].match(/^\s*-\s+(.*)$/): the match of the inner loop; item is lm[1].
ListItemMatch(line) == ListItemFrom(line, SkipSet(line, 1, WhiteSpace))

\* /^\[.*\]$/.test(s)
BracketTest(s) ==
  /\ Len(s) >= 2
  /\ s[1] = "["
  /\ s[Len(s)] = "]"
  /\ Chars(SubSeq(s, 2, Len(s) - 1)) \cap LineTerminators = {}

\* Lines 209-213: the parsed array, or the raw value when JSON.parse throws.
JsonOrRaw(val, r) == IF r.ok THEN r.v ELSE StrV(val)

\* Lines 216-220: a number unless Number(val) is NaN, else the trimmed text.
NumberOrString(val, n) == IF ~isNaN(n) THEN NumV(n) ELSE StrV(trim(val))

\* The branches of lines 207-220 for a value that opens no array block.
ScalarValue(val) ==
  IF BracketTest(trim(val)) THEN JsonOrRaw(val, JsonParse(ReplaceQuotes(val)))
  ELSE IF val = <<"t", "r", "u", "e">> \/ val = <<"f", "a", "l", "s", "e">>
  THEN BoolV(val = <<"t", "r", "u", "e">>)
  ELSE NumberOrString(val, Number(val))

\* out[k] = v
Put(o, k, v) == [x \in DOMAIN o \cup {k} |-> IF x = k THEN v ELSE o[x]]

EmptyObject == [x \in {} |-> NullV]

VARIABLES
  lines,     \* parseYamlLike: src.split(/\r?\n/)
  i,         \* the line cursor (the number of lines passed)
  out,       \* the mapping built so far
  pc,        \* "outer": the while of line 188; "inner": the while of line 200; "done"
  key,       \* m[1] of the array block being read
  arr,       \* the array being read
  examined,  \* history: the indexes of the lines the outer loop took
  consumed,  \* history: the indexes of the lines the inner loop pushed
  last       \* history: what the last outer iteration did

VARIABLES
  gpxText,   \* gpxToPolyline: the GPX text it is called with
  gpc,       \* "call" before the call, "returned" after it, "off" when unused
  gpxRet,    \* what it returned: [ok |-> FALSE] for null, else the polyline's points
  gpxLog     \* whether console.error was called (line 253)

VARIABLES
  rpc,       \* renderOSMapBlock: "off", "parse", "loop" (line 131), "done"
  notice,    \* whether it stopped at the missing-key notice (lines 101-105)
  gpxInputs, \* line 125
  showStartEnd, \* line 98
  fitToData, \* line 99
  idx,       \* the number of references the loop of line 131 has taken
  group,     \* the layers of the feature group, in the order added
  resolved,  \* history: the link texts handed to the metadata cache (line 228)
  outcomes,  \* history: per reference taken, the reference and how it ended
  fitted     \* whether fitBounds was called (line 157)

VARIABLES
  settings,  \* plugin.settings
  saved,     \* the data last handed to saveData (line 82)
  saveCalls, \* the number of saveSettings calls
  lastEdit   \* history: the field and the text of the last onChange

parseVars == <<lines, i, out, pc, key, arr, examined, consumed, last>>

gpxVars == <<gpxText, gpc, gpxRet, gpxLog>>

renderVars ==
  <<rpc, notice, gpxInputs, showStartEnd, fitToData, idx, group, resolved, outcomes, fitted>>

settingsVars == <<settings, saved, saveCalls, lastEdit>>

vars == <<parseVars, gpxVars, renderVars, settingsVars>>

NoLast == [at |-> 0, kind |-> "none", key |-> <<>>, val |-> <<>>]

ParseInit(src) ==
  /\ lines = Split(src)
  /\ i = 0
  /\ out = EmptyObject
  /\ pc = "outer"
  /\ key = <<>>
  /\ arr = <<>>
  /\ examined = {}
  /\ consumed = {}
  /\ last = NoLast

\* Lines 191-220 for the trimmed line and its match m.
OuterBranch(line, m) ==
  IF Len(line) = 0 \/ startsWith(trimStart(line), <<"#">>)
  THEN /\ last' = [at |-> i + 1, kind |-> "skip", key |-> <<>>, val |-> <<>>]
       /\ UNCHANGED <<out, pc, key, arr>>
  ELSE IF ~m.ok
  THEN /\ last' = [at |-> i + 1, kind |-> "nomatch", key |-> <<>>, val |-> <<>>]
       /\ UNCHANGED <<out, pc, key, arr>>
  ELSE IF m.val = <<>> /\ i + 1 < Len(lines) /\ ListItemTest(lines[i + 2])
  THEN /\ last' = [at |-> i + 1, kind |-> "array", key |-> m.key, val |-> m.val]
       /\ pc' = "inner"
       /\ key' = m.key
       /\ arr' = <<>>
       /\ out' = out
  ELSE /\ last' = [at |-> i + 1, kind |-> "scalar", key |-> m.key, val |-> m.val]
       /\ out' = Put(out, m.key, ScalarValue(m.val))
       /\ UNCHANGED <<pc, key, arr>>

OuterLine(line) == OuterBranch(line, KeyLineMatch(line))

\* One iteration of the while of line 188, up to the branch it takes; the
\* array branch hands over to the inner loop.
OuterStep ==
  /\ pc = "outer"
  /\ i < Len(lines)
  /\ i' = i + 1
  /\ examined' = examined \cup {i + 1}
  /\ OuterLine(trimEnd(lines[i + 1]))
  /\ UNCHANGED <<lines, consumed>>
  /\ UNCHANGED <<gpxVars, renderVars, settingsVars>>

\* The push of an item as it stands in the line, without the trim.
InnerPushRaw(lm) ==
  /\ lm.ok
  /\ arr' = Append(arr, StrV(lm.item))

\* Lines 201-203: the match, and the push of the trimmed item.
InnerPush(lm) ==
  /\ lm.ok
  /\ arr' = Append(arr, StrV(trim(lm.item)))

\* A cursor that stays on the item.
AdvanceInnerStuck == i' = i

\* i++ (line 204)
AdvanceInner == i' = i + 1

\* One iteration of the while of line 200 that pushes an item.
InnerStep ==
  /\ pc = "inner"
  /\ i < Len(lines)
  /\ InnerPush(ListItemMatch(lines[i + 1]))
  /\ AdvanceInner
  /\ consumed' = consumed \cup {i + 1}
  /\ UNCHANGED <<lines, out, pc, key, examined, last>>
  /\ UNCHANGED <<gpxVars, renderVars, settingsVars>>

\* The end of the inner loop (the text is over, or the break of line 202) and
\* the assignment of line 206.
InnerExit ==
  /\ pc = "inner"
  /\ ~(i < Len(lines) /\ ListItemMatch(lines[i + 1]).ok)
  /\ out' = Put(out, key, ArrV(arr))
  /\ pc' = "outer"
  /\ UNCHANGED <<lines, i, key, arr, examined, consumed, last>>
  /\ UNCHANGED <<gpxVars, renderVars, settingsVars>>

\* return out
ParseReturn ==
  /\ pc = "outer"
  /\ i >= Len(lines)
  /\ pc' = "done"
  /\ UNCHANGED <<lines, i, out, key, arr, examined, consumed, last>>
  /\ UNCHANGED <<gpxVars, renderVars, settingsVars>>

ParseNext == OuterStep \/ InnerStep \/ InnerExit \/ ParseReturn

\* ---------------------------------------------------------- gpxToPolyline
\* A GPX text is the sequence of its markup items in document order: trkpt
\* and wpt elements with their lat and lon attributes, a segment break (the
\* end of one trkseg and the start of the next) and a syntax error (markup
\* that is not well-formed XML from there on).

AttrMissing == [has |-> FALSE, text |-> <<>>]

Attr(t) == [has |-> TRUE, text |-> t]

Element(tag, lat, lon) == [tag |-> tag, lat |-> lat, lon |-> lon]

PtGood1 == Element("trkpt", Attr(<<"5", "1", ".", "5">>), Attr(<<"-", "0", ".", "1">>))

PtGood2 == Element("trkpt", Attr(<<"5", "2">>), Attr(<<"0", ".", "5">>))

PtNoLon == Element("trkpt", Attr(<<"5", "1", ".", "5">>), AttrMissing)

PtEmptyLat == Element("trkpt", Attr(<<>>), Attr(<<"1">>))

PtBadLat == Element("trkpt", Attr(<<"a", "b", "c">>), Attr(<<"1">>))

PtPrefixLon == Element("trkpt", Attr(<<"5", "0">>), Attr(<<"2", "x">>))

Wpt == Element("wpt", Attr(<<"5", "0">>), Attr(<<"0">>))

SegBreak == Element("#seg", AttrMissing, AttrMissing)

SyntaxError == Element("#bad", AttrMissing, AttrMissing)

GpxItemPool ==
  {PtGood1, PtGood2, PtNoLon, PtEmptyLat, PtBadLat, PtPrefixLon, Wpt, SegBreak, SyntaxError}

\* The longest GPX text, in items.
MaxItems == 3

GpxTexts == UNION {[1..n -> GpxItemPool] : n \in 0..MaxItems}

IsElement(e) == e.tag \notin {"#seg", "#bad"}

IsTrkpt(e) == e.tag = "trkpt"

IsBad(e) == e.tag = "#bad"

WellFormed(text) == \A k \in 1..Len(text) : ~IsBad(text[k])

FirstBad(text) == CHOOSE k \in 1..Len(text) : IsBad(text[k]) /\ WellFormed(SubSeq(text, 1, k - 1))

\* parser.parseFromString(gpxText, "application/xml"): the elements of the
\* document in document order.  It does not throw on text that is not
\* well-formed: the document then holds a parsererror element and, depending
\* on the engine, nothing else or what was parsed up to the error.
ParseFromString(text) ==
  IF WellFormed(text) THEN {SelectSeq(text, IsElement)}
  ELSE {<<>>, SelectSeq(SubSeq(text, 1, FirstBad(text) - 1), IsElement)}

\* Array.from(xml.getElementsByTagName("trkpt")): every trkpt element of the
\* document, whatever its parents, in document order.
GetTrkpts(doc) == SelectSeq(doc, IsTrkpt)

\* pt.getAttribute(name) || "0": null (no attribute) and "" give "0".
OrZero(a) == IF ~a.has \/ a.text = <<>> THEN <<"0">> ELSE a.text

\* Lines 247-249.
LatLngOf(pt) == [lat |-> parseFloat(OrZero(pt.lat)), lon |-> parseFloat(OrZero(pt.lon))]

LatLngs(trkpts) == [k \in 1..Len(trkpts) |-> LatLngOf(trkpts[k])]

HasNaN(latlngs) ==
  \E k \in 1..Len(latlngs) : isNaN(latlngs[k].lat) \/ isNaN(latlngs[k].lon)

NullResult(logged) == [ok |-> FALSE, pts |-> <<>>, log |-> logged]

\* L.polyline(latlngs, ...) inside the try of line 241.  The mapping library
\* is not part of the sources: Leaflet's LatLng rejects NaN with an Error,
\* which the catch of line 252 turns into console.error and null; a library
\* that does not validate keeps the NaN.  Both outcomes are kept.
PolylineResults(latlngs) ==
  {[ok |-> TRUE, pts |-> latlngs, log |-> FALSE]}
    \cup (IF HasNaN(latlngs) THEN {NullResult(TRUE)} ELSE {})

\* Lines 244-251 on the parsed document.
ResultsOfTrkpts(trkpts) ==
  IF Len(trkpts) = 0 THEN {NullResult(FALSE)} ELSE PolylineResults(LatLngs(trkpts))

\* gpxToPolyline(gpxText): the results it can return, each with whether
\* console.error was called.
GpxToPolyline(text) ==
  UNION {ResultsOfTrkpts(GetTrkpts(doc)) : doc \in ParseFromString(text)}

GpxCall ==
  /\ gpc = "call"
  /\ \E r \in GpxToPolyline(gpxText) :
       /\ gpxRet' = [ok |-> r.ok, pts |-> r.pts]
       /\ gpxLog' = r.log
  /\ gpc' = "returned"
  /\ UNCHANGED gpxText
  /\ UNCHANGED <<parseVars, renderVars, settingsVars>>

\* --------------------------------------------------------------- settings

\* DEFAULT_SETTINGS (lines 36-41).
DEFAULT_SETTINGS ==
  [osApiKey      |-> <<>>,
   defaultStyle  |-> "Outdoor_3857",
   defaultCenter |-> <<Fin(FALSE, 545, -1), Fin(TRUE, 30, -1)>>,
   defaultZoom   |-> Fin(FALSE, 6, 0)]

\* v.split(","): cut at every comma; a text without any is one part.
RECURSIVE SplitComma(_, _, _)
SplitComma(s, p, cur) ==
  IF p > Len(s) THEN <<cur>>
  ELSE IF s[p] = "," THEN <<cur>> \o SplitComma(s, p + 1, <<>>)
  ELSE SplitComma(s, p + 1, Append(cur, s[p]))

\* v.split(",").map((s) => Number(s.trim()))
CenterParts(v) ==
  [k \in 1..Len(SplitComma(v, 1, <<>>)) |-> Number(trim(SplitComma(v, 1, <<>>)[k]))]

\* A guard that counts the parts and does not check them.
CenterAcceptedUnchecked(m) == Len(m) = 2

\* The guard of line 327.
CenterAccepted(m) == Len(m) = 2 /\ \A k \in 1..Len(m) : ~isNaN(m[k])

\* The guard of line 342.
ZoomAccepted(n) == ~isNaN(n)

\* The most edits the settings tab saves in one run.
MaxEdits == 3

\* saveSettings(): saveData(this.settings).
SaveSettings(new) ==
  /\ settings' = new
  /\ saved' = new
  /\ saveCalls' = saveCalls + 1

ApiKeyTexts == {<<>>, <<"p", "k">>, <<" ", "p", "k", " ">>}

StyleKeys == {"Outdoor_3857", "Leisure_3857", "Road_3857", "Light_3857", "Backdrop_3857"}

CenterTexts ==
  {<<"5", "1", ".", "5", ",", " ", "-", "1">>,
   <<"1", ",", "2", ",", "3">>,
   <<"7">>,
   <<"1", ",", "x">>,
   <<",">>,
   <<>>,
   <<"I", "n", "f", "i", "n", "i", "t", "y", ",", "0">>}

ZoomTexts == {<<"1", "2">>, <<>>, <<"a", "b", "c">>, <<"1", "2", "p", "x">>, <<" ", "7", " ">>}

\* Lines 294-297.
ChangeApiKey(v) ==
  /\ saveCalls < MaxEdits
  /\ lastEdit' = [field |-> "osApiKey", text |-> v]
  /\ SaveSettings([settings EXCEPT !.osApiKey = trim(v)])
  /\ UNCHANGED <<parseVars, gpxVars, renderVars>>

\* Lines 313-316.
ChangeStyle(v) ==
  /\ saveCalls < MaxEdits
  /\ lastEdit' = [field |-> "defaultStyle", text |-> v]
  /\ SaveSettings([settings EXCEPT !.defaultStyle = v])
  /\ UNCHANGED <<parseVars, gpxVars, renderVars>>

CenterEdit(m) ==
  IF CenterAccepted(m)
  THEN SaveSettings([settings EXCEPT !.defaultCenter = <<m[1], m[2]>>])
  ELSE UNCHANGED <<settings, saved, saveCalls>>

\* Lines 325-331.
ChangeCenter(v) ==
  /\ saveCalls < MaxEdits
  /\ lastEdit' = [field |-> "defaultCenter", text |-> v]
  /\ CenterEdit(CenterParts(v))
  /\ UNCHANGED <<parseVars, gpxVars, renderVars>>

ZoomEdit(n) ==
  IF ZoomAccepted(n)
  THEN SaveSettings([settings EXCEPT !.defaultZoom = n])
  ELSE UNCHANGED <<settings, saved, saveCalls>>

\* Lines 340-346.
ChangeZoom(v) ==
  /\ saveCalls < MaxEdits
  /\ lastEdit' = [field |-> "defaultZoom", text |-> v]
  /\ ZoomEdit(Number(v))
  /\ UNCHANGED <<parseVars, gpxVars, renderVars>>

\* ------------------------------------------------------- renderOSMapBlock

K_gpx == <<"g", "p", "x">>

K_apiKey == <<"a", "p", "i", "K", "e", "y">>

K_showStartEnd == <<"s", "h", "o", "w", "S", "t", "a", "r", "t", "E", "n", "d">>

K_zoomFeatures == <<"z", "o", "o", "m", "F", "e", "a", "t", "u", "r", "e", "s">>

K_fit == <<"f", "i", "t">>

\* JavaScript's truthiness of a stored value.
Truthy(v) ==
  CASE v.t = "String"  -> v.s # <<>>
    [] v.t = "Number"  -> ~isNaN(v.n) /\ ~(v.n.k = "Fin" /\ v.n.m = 0)
    [] v.t = "Boolean" -> v.b
    [] v.t = "Array"   -> TRUE
    [] OTHER           -> FALSE

\* opts[k] ?? default: the default for a key that is absent.
Opt(o, k, default) == IF k \in DOMAIN o THEN o[k] ELSE default

\* opts[k] === true
IsTrue(o, k) == k \in DOMAIN o /\ o[k] = BoolV(TRUE)

\* Line 125.
GpxInputs(o) ==
  IF K_gpx \notin DOMAIN o THEN <<>>
  ELSE IF o[K_gpx].t = "Array" THEN o[K_gpx].a
  ELSE IF Truthy(o[K_gpx]) THEN <<o[K_gpx]>>
  ELSE <<>>

\* A strip that leaves the closing brackets.
StripTrailingKept(s) == s

StripTrailing(s) ==
  IF Len(s) >= 2 /\ HasPrefixAt(s, Len(s) - 1, <<"]", "]">>)
  THEN SubSeq(s, 1, Len(s) - 2) ELSE s

\* Line 227: linkOrWikilink.replace(/^\[\[/, "").replace(/\]\]$/, "")
StripWikilink(s) ==
  StripTrailing(IF startsWith(s, <<"[", "[">>) THEN From(s, 3) ELSE s)

\* The files of the vault the references can resolve to.
GpxFilePool ==
  {<<PtGood1, SegBreak, PtGood2>>, <<>>, <<PtBadLat, PtGood1>>, <<Wpt, SyntaxError>>}

\* How the body of the try of line 132 can go for a reference that is a
\* string: the link resolves to no file, vault.read raises, or the file is
\* read and gpxToPolyline returns res.
TrackOutcomes ==
  {[kind |-> "notfound", res |-> NullResult(FALSE)],
   [kind |-> "readraises", res |-> NullResult(FALSE)]}
    \cup {[kind |-> "read", res |-> r] : r \in UNION {GpxToPolyline(t) : t \in GpxFilePool}}

\* Layers added whatever the outcome of the reference.
TrackLayersAlways(n, o, markers) ==
  <<[kind |-> "polyline", of |-> n, pts |-> o.res.pts]>>

\* Lines 140-150: the layers a reference adds to the group.
TrackLayers(n, o, markers) ==
  IF o.kind = "read" /\ o.res.ok
  THEN <<[kind |-> "polyline", of |-> n, pts |-> o.res.pts]>>
         \o (IF markers /\ Len(o.res.pts) > 0
             THEN <<[kind |-> "start", of |-> n, pts |-> <<o.res.pts[1]>>],
                    [kind |-> "end", of |-> n, pts |-> <<o.res.pts[Len(o.res.pts)]>>]>>
             ELSE <<>>)
  ELSE <<>>

OutcomeName(o) ==
  IF o.kind # "read" THEN o.kind ELSE IF o.res.ok THEN "ok" ELSE "null"

\* Lines 87-126: the options are read once parseYamlLike has returned; without
\* an API key the block shows the notice and returns.
ReadOptions ==
  /\ rpc = "parse"
  /\ pc = "done"
  /\ IF ~Truthy(Opt(out, K_apiKey, StrV(settings.osApiKey)))
     THEN /\ notice' = TRUE
          /\ rpc' = "done"
          /\ UNCHANGED <<gpxInputs, showStartEnd, fitToData>>
     ELSE /\ notice' = FALSE
          /\ rpc' = "loop"
          /\ gpxInputs' = GpxInputs(out)
          /\ showStartEnd' = Truthy(Opt(out, K_showStartEnd, BoolV(TRUE)))
          /\ fitToData' = (IsTrue(out, K_zoomFeatures) \/ IsTrue(out, K_fit))
  /\ UNCHANGED <<idx, group, resolved, outcomes, fitted>>
  /\ UNCHANGED <<parseVars, gpxVars, settingsVars>>

\* One iteration of the loop of line 131 for a reference that is a string.
TrackOfString(ref) ==
  /\ resolved' = Append(resolved, StripWikilink(ref.s))
  /\ \E o \in TrackOutcomes :
       /\ group' = group \o TrackLayers(idx + 1, o, showStartEnd)
       /\ outcomes' = Append(outcomes, [ref |-> ref, outcome |-> OutcomeName(o)])

\* A reference that is no string (an element of a bracketed array): replace is
\* no function of it, and the TypeError is caught at line 151.
TrackOfOther(ref) ==
  /\ outcomes' = Append(outcomes, [ref |-> ref, outcome |-> "typeerror"])
  /\ UNCHANGED <<group, resolved>>

TrackOf(ref) == IF ref.t = "String" THEN TrackOfString(ref) ELSE TrackOfOther(ref)

\* One iteration of the loop of line 131, its try and catch included.
LoopStep ==
  /\ rpc = "loop"
  /\ idx < Len(gpxInputs)
  /\ TrackOf(gpxInputs[idx + 1])
  /\ idx' = idx + 1
  /\ UNCHANGED <<rpc, notice, gpxInputs, showStartEnd, fitToData, fitted>>
  /\ UNCHANGED <<parseVars, gpxVars, settingsVars>>

\* Lines 156-172: after the loop.
LoopEnd ==
  /\ rpc = "loop"
  /\ idx >= Len(gpxInputs)
  /\ fitted' = (fitToData /\ Len(group) > 0)
  /\ rpc' = "done"
  /\ UNCHANGED <<notice, gpxInputs, showStartEnd, fitToData, idx, group, resolved, outcomes>>
  /\ UNCHANGED <<parseVars, gpxVars, settingsVars>>

\* --------------------------------------------------------- specifications

ParseIdle ==
  /\ lines = <<>>
  /\ i = 0
  /\ out = EmptyObject
  /\ pc = "off"
  /\ key = <<>>
  /\ arr = <<>>
  /\ examined = {}
  /\ consumed = {}
  /\ last = NoLast

GpxIdle ==
  /\ gpxText = <<>>
  /\ gpc = "off"
  /\ gpxRet = [ok |-> FALSE, pts |-> <<>>]
  /\ gpxLog = FALSE

RenderStart(mode) ==
  /\ rpc = mode
  /\ notice = FALSE
  /\ gpxInputs = <<>>
  /\ showStartEnd = TRUE
  /\ fitToData = FALSE
  /\ idx = 0
  /\ group = <<>>
  /\ resolved = <<>>
  /\ outcomes = <<>>
  /\ fitted = FALSE

SettingsStart(s) ==
  /\ settings = s
  /\ saved = s
  /\ saveCalls = 0
  /\ lastEdit = [field |-> "none", text |-> <<>>]

\* parseYamlLike on every block text of the pool.
InitParse ==
  /\ \E src \in BlockTexts(ParseLinePool, MaxLines) : ParseInit(src)
  /\ GpxIdle
  /\ RenderStart("off")
  /\ SettingsStart(DEFAULT_SETTINGS)

SpecParse == InitParse /\ [][ParseNext]_vars

\* gpxToPolyline on every GPX text of the pool.
InitGpx ==
  /\ ParseIdle
  /\ gpxText \in GpxTexts
  /\ gpc = "call"
  /\ gpxRet = [ok |-> FALSE, pts |-> <<>>]
  /\ gpxLog = FALSE
  /\ RenderStart("off")
  /\ SettingsStart(DEFAULT_SETTINGS)

SpecGpx == InitGpx /\ [][GpxCall]_vars

\* The settings tab, from the default settings.
InitSettings ==
  /\ ParseIdle
  /\ GpxIdle
  /\ RenderStart("off")
  /\ SettingsStart(DEFAULT_SETTINGS)

SettingsNext ==
  \/ \E v \in ApiKeyTexts : ChangeApiKey(v)
  \/ \E v \in StyleKeys : ChangeStyle(v)
  \/ \E v \in CenterTexts : ChangeCenter(v)
  \/ \E v \in ZoomTexts : ChangeZoom(v)

SpecSettings == InitSettings /\ [][SettingsNext]_vars

\* The lines of the blocks that are rendered.
RenderLinePool ==
  {LineGpxEmpty, LineItemLink, LineItemB, LineGpxLink, LineGpxNumber,
   LineApiKey, LineApiKeyEmpty, LineNoMarkers}

\* renderOSMapBlock on every block text of the pool, with and without an API
\* key in the settings.
InitRender ==
  /\ \E src \in BlockTexts(RenderLinePool, MaxLines) : ParseInit(src)
  /\ GpxIdle
  /\ RenderStart("parse")
  /\ \E k \in {<<>>, <<"p", "k">>} : SettingsStart([DEFAULT_SETTINGS EXCEPT !.osApiKey = k])

RenderNext == ParseNext \/ ReadOptions \/ LoopStep \/ LoopEnd

SpecRender == InitRender /\ [][RenderNext]_vars

\* ------------------------------------------------------------- the claims

\* The number of consecutive list-item lines from line j on.
RECURSIVE ItemRun(_, _)
ItemRun(ls, j) ==
  IF j <= Len(ls) /\ ListItemMatch(ls[j]).ok THEN 1 + ItemRun(ls, j + 1) ELSE 0

KeyLine(j) == KeyLineMatch(trimEnd(lines[j]))

ItemsAfter(j, n) == [k \in 1..n |-> StrV(trim(ListItemMatch(lines[j + k]).item))]

\* C1: a key line whose value is empty and whose next line is no list-item
\* line (or which is the last line) maps its key to the empty string.
C1_EmptyValueIsEmptyString ==
  (/\ pc \in {"outer", "done"}
   /\ last.kind \in {"scalar", "array"}
   /\ last.val = <<>>
   /\ (last.at = Len(lines) \/ ~ListItemMatch(lines[last.at + 1]).ok))
  => (last.key \in DOMAIN out /\ out[last.key] = StrV(<<>>))

\* What is left to do: two steps at most for each line after the cursor, the
\* exit of the inner loop and the return.
Remaining ==
  2 * (Len(lines) - i) + (IF pc = "inner" THEN 1 ELSE 0) + (IF pc = "done" THEN 0 ELSE 1)

\* A step that is an iteration of the outer or of the inner loop: neither the
\* exit of the inner loop nor the return.
LoopIteration == pc' # "done" /\ ~(pc = "inner" /\ pc' = "outer")

CursorInText ==
  /\ i \in 0..Len(lines)
  /\ examined \cup consumed = 1..i
  /\ examined \cap consumed = {}
  /\ pc \in {"outer", "inner", "done"}
  /\ (pc = "inner" => ENABLED (InnerStep \/ InnerExit))
  /\ (pc = "outer" /\ i >= Len(lines) => ENABLED ParseReturn)
  /\ (pc = "done" => i = Len(lines))

KeysInText ==
  \A k \in DOMAIN out :
    \E j \in 1..Len(lines) : startsWith(lines[j], k \o <<":">>)

\* C3: parseYamlLike terminates without raising on every text.  The cursor
\* stays within the text and the lines taken so far are exactly the first i
\* lines, each taken once; the inner loop can always push or leave, and the
\* outer loop returns at the end of the text; every key of the mapping is the
\* key of a key: line of the text; every iteration of the outer and of the
\* inner loop moves the cursor forward by one line, and every step leaves
\* strictly less to do.
C3_ParseTerminates ==
  /\ [](CursorInText /\ KeysInText)
  /\ [][(LoopIteration => i' = i + 1) /\ Remaining' < Remaining]_vars

\* C3's case: a text with list items and two keys has been parsed to its end.
C3_Witness ==
  pc = "done" /\ consumed # {} /\ Cardinality(DOMAIN out) >= 2 /\ i = Len(lines)

\* C4: a key line with an empty value followed by n >= 1 list-item lines maps
\* its key to the array of exactly those n items, trimmed, in order; the
\* scan stops before the first line that is no list item, and that line is
\* then taken by the outer loop as an ordinary line.
C4_ArrayBlock ==
  \A j \in examined :
    (/\ KeyLine(j).ok
     /\ KeyLine(j).val = <<>>
     /\ ItemRun(lines, j + 1) >= 1
     /\ ~(pc = "inner" /\ last.at = j))
    => LET n == ItemRun(lines, j + 1)
       IN  /\ \A k \in 1..n : (j + k) \in consumed /\ (j + k) \notin examined
           /\ (j + n + 1) \notin consumed
           /\ i >= j + n
           /\ (i > j + n => (j + n + 1) \in examined)
           /\ (last.at = j =>
                 /\ i = j + n
                 /\ KeyLine(j).key \in DOMAIN out
                 /\ out[KeyLine(j).key] = ArrV(ItemsAfter(j, n)))

\* C4's case: an array block was read and the key: value line after it
\* produced its own entry.
C4_Witness ==
  /\ pc = "done"
  /\ last.kind = "scalar"
  /\ (last.at - 1) \in consumed
  /\ last.key \in DOMAIN out
  /\ \E k \in DOMAIN out : k # last.key /\ out[k].t = "Array" /\ Len(out[k].a) >= 1

OnlyHyphens(v) == v # <<>> /\ Chars(v) \subseteq {"-"}

OnlyAlpha(v) == v # <<>> /\ Chars(v) \subseteq AlphaChars

\* C6: a value made up only of hyphens, or only of alphabetic characters and
\* not exactly true or false, is stored as the trimmed String, never a Number.
C6_NoNumberForHyphensOrAlpha ==
  (/\ last.kind = "scalar"
   /\ last.at = i
   /\ \/ OnlyHyphens(last.val)
      \/ (/\ OnlyAlpha(last.val)
          /\ last.val \notin {<<"t", "r", "u", "e">>, <<"f", "a", "l", "s", "e">>}))
  => out[last.key] = StrV(trim(last.val))

\* The trkpt elements of a well-formed GPX text, in document order.
TrkptsOf(text) == SelectSeq(text, IsTrkpt)

NonNumeric(a) == ~a.has \/ a.text = <<>> \/ isNaN(Number(a.text))

\* C2: a lat or lon attribute that is missing or not numeric gives the
\* coordinate 0, and the extraction still succeeds with every point.
C2_BadAttributeIsZero ==
  (gpc = "returned" /\ WellFormed(gpxText) /\ Len(TrkptsOf(gpxText)) > 0)
  => /\ gpxRet.ok
     /\ Len(gpxRet.pts) = Len(TrkptsOf(gpxText))
     /\ \A k \in 1..Len(gpxRet.pts) :
          /\ NonNumeric(TrkptsOf(gpxText)[k].lat) => gpxRet.pts[k].lat = Zero
          /\ NonNumeric(TrkptsOf(gpxText)[k].lon) => gpxRet.pts[k].lon = Zero

\* C5: null for a document without trkpt elements; otherwise one point per
\* trkpt element, in document order, the segments flattened.
C5_OnePointPerTrkpt ==
  (gpc = "returned" /\ WellFormed(gpxText))
  => IF Len(TrkptsOf(gpxText)) = 0
     THEN ~gpxRet.ok
     ELSE /\ gpxRet.ok
          /\ Len(gpxRet.pts) = Len(TrkptsOf(gpxText))

\* C7: for a GPX text that is malformed or holds no track points the result
\* is null and a diagnostic is logged.
C7_NullWithDiagnostic ==
  (gpc = "returned" /\ Len(TrkptsOf(gpxText)) = 0)
  => (~gpxRet.ok /\ gpxLog)

IsPolyline(l) == l.kind = "polyline"

OkRefs == {k \in 1..Len(outcomes) : outcomes[k].outcome = "ok"}

\* C8: the track loop takes every reference once, in listed order; a
\* reference that fails (not found, read raises, null from the extractor, no
\* string) adds no layer and does not stop the loop; the layers of the group
\* are those of the references that succeeded, one polyline each, in order.
C8_TrackLoop ==
  /\ Len(outcomes) = idx
  /\ idx <= Len(gpxInputs)
  /\ \A k \in 1..idx : outcomes[k].ref = gpxInputs[k]
  /\ {group[k].of : k \in 1..Len(group)} = OkRefs
  /\ Len(SelectSeq(group, IsPolyline)) = Cardinality(OkRefs)
  /\ \A a, b \in 1..Len(group) : a < b => group[a].of <= group[b].of
  /\ (rpc = "done" /\ ~notice => idx = Len(gpxInputs))

\* C8's case: the loop has ended, and a reference that failed is followed by
\* one that succeeded and whose layers are in the group.
C8_Witness ==
  /\ rpc = "done"
  /\ \E a, b \in 1..Len(outcomes) :
       /\ a < b
       /\ outcomes[a].outcome \in {"notfound", "readraises", "null"}
       /\ b \in OkRefs
       /\ \E k \in 1..Len(group) : group[k].of = b

GpxLines == {j \in 1..Len(lines) : KeyLine(j).ok /\ KeyLine(j).key = K_gpx}

\* The last gpx: line of the block (a later entry replaces an earlier one).
LastGpx == CHOOSE j \in GpxLines : \A k \in GpxLines : k <= j

IsWikilink(v) ==
  Len(v) >= 4 /\ startsWith(v, <<"[", "[">>) /\ HasPrefixAt(v, Len(v) - 1, <<"]", "]">>)

\* The link text of a wikilink, and a plain reference as it is.
LinkText(v) == IF IsWikilink(v) THEN SubSeq(v, 3, Len(v) - 2) ELSE v

\* What C9 says of a block whose last gpx entry is at line j.
GpxReferences(j) ==
  /\ (IsWikilink(KeyLine(j).val) /\ ~JsonParse(ReplaceQuotes(KeyLine(j).val)).ok)
     => /\ out[K_gpx] = StrV(KeyLine(j).val)
        /\ resolved = <<LinkText(KeyLine(j).val)>>
  /\ (KeyLine(j).val = <<>> /\ ItemRun(lines, j + 1) >= 1)
     => /\ Len(resolved) = ItemRun(lines, j + 1)
        /\ \A k \in 1..Len(resolved) :
             resolved[k] = LinkText(trim(ListItemMatch(lines[j + k]).item))

C9_WitnessSingle ==
  /\ rpc = "done"
  /\ ~notice
  /\ GpxLines # {}
  /\ IsWikilink(KeyLine(LastGpx).val)
  /\ resolved = <<<<"a", ".", "g", "p", "x">>>>

IsNumber(x) == x.k \in {"Fin", "Inf"}

ValidSettings ==
  /\ Len(settings.defaultCenter) = 2
  /\ IsNumber(settings.defaultCenter[1])
  /\ IsNumber(settings.defaultCenter[2])
  /\ IsNumber(settings.defaultZoom)

\* A centre text that is not exactly two numeric comma-separated parts.
CenterRejected(v) ==
  ~(/\ Len(SplitComma(v, 1, <<>>)) = 2
    /\ \A k \in 1..2 : ~isNaN(Number(SplitComma(v, 1, <<>>)[k])))

ZoomRejected(v) == isNaN(Number(v))

RejectedEdit(e) ==
  \/ (e.field = "defaultCenter" /\ CenterRejected(e.text))
  \/ (e.field = "defaultZoom" /\ ZoomRejected(e.text))

\* C10: after any sequence of edits in the settings tab, defaultCenter is a
\* pair of non-NaN numbers and defaultZoom a non-NaN number; an edit whose
\* text is rejected leaves the settings unchanged and does not call
\* saveSettings.
C10_SettingsStayValid ==
  /\ []ValidSettings
  /\ [][RejectedEdit(lastEdit') =>
          (settings' = settings /\ saved' = saved /\ saveCalls' = saveCalls)]_vars

\* C10's case: an accepted centre, then a rejected edit.
C10_Witness ==
  /\ RejectedEdit(lastEdit)
  /\ saveCalls >= 1
  /\ settings.defaultCenter # DEFAULT_SETTINGS.defaultCenter
====
